---- MODULE Spec2Model ----
(***************************************************************************)
(* Soonish: the reminder lifecycle and notification scheduling of App.jsx  *)
(* and services/NotificationManager.js.                                    *)
(*                                                                         *)
(* Time is in milliseconds, as Date.now() gives it.  Local time is taken   *)
(* to be UTC without daylight saving, so that local midnight is a multiple *)
(* of MsPerDay.  The clock never runs backwards.                           *)
(*                                                                         *)
(* One JavaScript task (an event handler up to its first real await, the   *)
(* continuation after an await, one interval callback) is one action.  On  *)
(* the web platform NotificationManager.cancel and schedule do not leave   *)
(* the microtask queue, so snooze, deferAll and dismiss are one action     *)
(* there; on a native platform every await of a LocalNotifications call is *)
(* a point where other tasks run.  The effect of a platform call on the OS *)
(* scheduler is taken together with the resumption of its caller.  A       *)
(* handler that changes nothing before its first await (handleAddReminder  *)
(* before requestPermissions, handleSnooze before its awaited cancel,      *)
(* handleDelete before the haptic feedback) starts at the step that        *)
(* follows that await.                                                     *)
(*                                                                         *)
(* The OS scheduler behind LocalNotifications is not part of the sources:  *)
(* it is a bag of pending alarms to which schedule adds and from which     *)
(* cancel(id) removes every alarm of the id.                               *)
(*                                                                         *)
(* Spec is the app from a fresh start in the morning, on either platform.  *)
(* SpecOverlap lets a dismiss start while another platform call is in      *)
(* flight, SpecFailure lets the platform reject a schedule call (the       *)
(* field rejected of a reminder records that; like uid, dispatched and     *)
(* shown it is not a field of the program), SpecDeferFailure lets it       *)
(* reject the schedule call of a branch of deferAll, SpecDay starts at     *)
(* 23:50 and passes midnight, where the cleanup timeout fires, SpecNights  *)
(* passes two midnights, and SpecInput creates with prefixed texts and     *)
(* several durations.                                                      *)
(* SpecPort calls the methods of NotificationManager by themselves, with   *)
(* init suspended at each of its awaits; in the other specifications init  *)
(* is taken in one step with the call that awaits it.  SpecId applies the  *)
(* id allocation to clock readings of more than 32 bits, SpecRestart adds  *)
(* the settings screen and a restart of the process to the runs over       *)
(* midnight on the web, SpecTicking is the web with the interval of the    *)
(* timer loop firing for ever, SpecPermission is the web with a permission *)
(* the user may change in the browser, and SpecAction is a native platform *)
(* on which snooze and dismiss come from notification actions.             *)
(***************************************************************************)
EXTENDS Integers, Sequences, FiniteSets, Bags, TLC

----------------------------------------------------------------------------
(* Program constants *)

MsPerSecond == 1000
SecondsPerMinute == 60
IdModulus == 2147483647
MsPerMinute == 60 * 1000
MsPerHour == 60 * MsPerMinute
MsPerDay == 24 * MsPerHour
DefaultSnoozeMinutes == 10

(* Bounds of the model *)

(* MaxCreates: reminders created in a run.  MaxTasks: a create, a dismiss or *)
(* a deferAll begins only while fewer than MaxTasks calls are suspended at  *)
(* an await; a snooze begins while fewer than MaxTasksAtSnooze are.  In     *)
(* the runs of SpecOverlap a dismiss begins while fewer than                *)
(* MaxTasksAtDismiss are.                                                   *)
MaxCreates == 2
MaxTasks == 1
MaxTasksAtSnooze == 2
MaxTasksAtDismiss == 2
MaxCalls == 2
MaxAlarms == 2

(* The clock readings of a run over midnight: 23:50 of day 0, the midnight  *)
(* that follows, and 00:05 of day 1.                                        *)
D0 == 23 * MsPerHour + 50 * MsPerMinute
DayInstants == {D0, D0 + 10 * MsPerMinute, D0 + 15 * MsPerMinute}

(* The clock readings of a run over two midnights: 23:50 of day 0, the      *)
(* first midnight, 00:05 of day 1, one millisecond before the second        *)
(* midnight, the second midnight, and 00:05 of day 2.                       *)
NightInstants == {D0, MsPerDay, MsPerDay + 5 * MsPerMinute, 2 * MsPerDay - 1,
                  2 * MsPerDay, 2 * MsPerDay + 5 * MsPerMinute}

(* The clock readings of a run: 08:50:00.000 of day 0, a sub-second later,  *)
(* and a quarter of an hour later, 09:05:00.000.                            *)
T0 == 8 * MsPerHour + 50 * MsPerMinute
Instants == {T0, T0 + 400, T0 + 15 * MsPerMinute}

Platforms == {"web", "android"}
Durations == {15}
SnoozeMinutes == {DefaultSnoozeMinutes}
PermissionStates == {"default", "granted", "denied"}

(* What the user types into ReminderInput: sequences of characters. *)
Texts == { <<>>, <<" ">>, <<"m">> }

(* The inputs of the runs that look at what create stores: a plain text, a  *)
(* text after a [5] prefix, a [5] prefix alone, a [0] prefix, a [5] prefix  *)
(* and a space before the text, and two of the durations TimeSelector       *)
(* offers.                                                                  *)
InputTexts == { <<"m">>, <<"[", "5", "]", "m">>, <<"[", "5", "]">>,
                <<"[", "0", "]", "m">>, <<"[", "5", "]", " ", "m">> }
InputDurations == {15, 30}

(* What the settings record holds under deferTime: "HH:MM" as characters. *)
DefaultDeferTime == <<"0", "9", ":", "0", "0">>
DeferTimes == { DefaultDeferTime }

(* The actionId of an inbound notification action: the two registered       *)
(* actions and the tap on the notification itself.                          *)
ActionIds == { "SNOOZE", "DISMISS", "tap" }

(* What the time input of SettingsView can hand to onSave: a time, or the   *)
(* empty string when the input is cleared.                                  *)
StorableDeferTimes == { DefaultDeferTime, << >> }

----------------------------------------------------------------------------
(* JavaScript arithmetic *)

(* Math.ceil(a / b) for an integer a and b > 0 *)
CeilDiv(a, b) == -((-a) \div b)

Max(a, b) == IF a >= b THEN a ELSE b

(* Math.max(0, Math.ceil((targetTime - now) / 1000)) *)
RemainingAt(targetTime, t) == Max(0, CeilDiv(targetTime - t, MsPerSecond))

(* Math.floor(now % 2147483647) *)
IdOf(t) == t % IdModulus

(* Readings of Date.now() beyond 32 bits, as the model's integers cannot    *)
(* hold them: the reading c.q * 2147483647 + c.r, with 0 <= c.r <           *)
(* 2147483647.  Today's readings have c.q around 820.                       *)
ClockWraps == {0, 1, 2, 410, 819, 820, 821, 1000}
ClockResidues == {0, 1, 999, 31800000, 31800400, IdModulus - 1000, IdModulus - 1}
WideClocks == { [q |-> q, r |-> r] : q \in ClockWraps, r \in ClockResidues }

(* an id that is the low 32 bits of the reading, as now | 0 gives them:     *)
(* c.q * 2147483647 + c.r = c.q * 2^31 + (c.r - c.q)                        *)
IdByTruncation(c) ==
    LET v == c.r - c.q
    IN  IF c.q % 2 = 0 THEN v
        ELSE IF v >= 0 THEN (v - IdModulus) - 1
        ELSE (IdModulus + v) + 1

(* Math.floor(now % 2147483647) for a wide reading: the remainder of        *)
(* c.q * 2147483647 + c.r is that of c.r                                    *)
IdOfWide(c) == IdOf(c.r)

(* NaN, the value of Number() on a non-number and the time of an invalid    *)
(* Date; every real time and count of the model is >= 0.                    *)
NaN == 0 - 1

(* null, what JSON.stringify writes for NaN and JSON.parse reads back; in   *)
(* arithmetic null counts as 0, and so does every value below 0 in the      *)
(* comparisons and differences the program makes with it                    *)
Null == 0 - 2

JsonNumber(x) == IF x = NaN THEN Null ELSE x

Digits == <<"0", "1", "2", "3", "4", "5", "6", "7", "8", "9">>

IsDigit(c) == \E d \in 1..10 : Digits[d] = c

DigitValue(c) == (CHOOSE d \in 1..10 : Digits[d] = c) - 1

(* str.split(':'): the pieces of s between the colons *)
RECURSIVE Split(_)
Split(s) ==
    IF \A i \in 1..Len(s) : s[i] # ":"
    THEN << s >>
    ELSE LET k == CHOOSE i \in 1..Len(s) :
                      s[i] = ":" /\ \A j \in 1..(i - 1) : s[j] # ":"
         IN  << SubSeq(s, 1, k - 1) >> \o Split(SubSeq(s, k + 1, Len(s)))

(* Number(piece) for a piece of a time string: 0 for the empty string, the  *)
(* decimal value of a string of digits, NaN otherwise                       *)
RECURSIVE DecimalValue(_)
DecimalValue(s) ==
    IF s = << >> THEN 0
    ELSE 10 * DecimalValue(SubSeq(s, 1, Len(s) - 1)) + DigitValue(s[Len(s)])

Number(s) ==
    IF \A i \in 1..Len(s) : IsDigit(s[i]) THEN DecimalValue(s) ELSE NaN

(* const [hours, minutes] = settings.deferTime.split(':').map(Number);      *)
(* a missing element is undefined, which setHours turns into NaN            *)
ParseDeferTime(deferTime) ==
    LET parts == Split(deferTime)
    IN  [hours   |-> Number(parts[1]),
         minutes |-> IF Len(parts) >= 2 THEN Number(parts[2]) ELSE NaN]

(* Local midnight at the start of the day of t *)
StartOfDay(t) == t - (t % MsPerDay)

(* the same hour and minute of the day of t *)
TodayAt(t, hm) ==
    IF hm.hours = NaN \/ hm.minutes = NaN THEN NaN
    ELSE StartOfDay(t) + hm.hours * MsPerHour + hm.minutes * MsPerMinute

(* tomorrow = new Date(); tomorrow.setDate(tomorrow.getDate() + 1);         *)
(* tomorrow.setHours(hours, minutes, 0, 0); tomorrow.getTime()              *)
TomorrowAt(t, hm) ==
    IF hm.hours = NaN \/ hm.minutes = NaN THEN NaN
    ELSE StartOfDay(t) + MsPerDay + hm.hours * MsPerHour + hm.minutes * MsPerMinute

(* Math.ceil((tomorrow.getTime() - now) / 1000) *)
SecondsUntil(target, t) ==
    IF target = NaN THEN NaN ELSE CeilDiv(target - t, MsPerSecond)


(* String.prototype.trim over the characters of the model *)
IsSpace(c) == c = " "

RECURSIVE TrimStart(_)
TrimStart(s) ==
    IF s # << >> /\ IsSpace(s[1]) THEN TrimStart(Tail(s)) ELSE s

RECURSIVE TrimEnd(_)
TrimEnd(s) ==
    IF s # << >> /\ IsSpace(s[Len(s)]) THEN TrimEnd(SubSeq(s, 1, Len(s) - 1)) ELSE s

(* a trim that removes nothing *)
TrimNothing(s) == s

Trim(s) == TrimEnd(TrimStart(s))

DefaultText == <<"R", "e", "m", "i", "n", "d", "e", "r">>

(* The match of the input against the pattern "[digits]" at its start:     *)
(* the position of the closing bracket, or 0 when there is no match         *)
PrefixEnd(text) ==
    IF Len(text) >= 3 /\ text[1] = "["
       /\ \E k \in 3..Len(text) :
              text[k] = "]" /\ \A j \in 2..(k - 1) : IsDigit(text[j])
    THEN CHOOSE k \in 3..Len(text) :
              text[k] = "]" /\ \A j \in 2..(k - 1) : IsDigit(text[j])
    ELSE 0

(* a create that does not look for a prefix *)
DurationAndTextAsSelected(inputValue, selectedDuration) ==
    [seconds |-> selectedDuration * SecondsPerMinute, text |-> inputValue]

(* a create that takes the minutes of the prefix and stores the input as    *)
(* typed                                                                    *)
DurationAndTextKeepingPrefix(inputValue, selectedDuration) ==
    LET k       == PrefixEnd(inputValue)
        minutes == IF k = 0 THEN 0 ELSE DecimalValue(SubSeq(inputValue, 2, k - 1))
    IN  IF k # 0 /\ minutes > 0
        THEN [seconds |-> minutes * SecondsPerMinute, text |-> inputValue]
        ELSE [seconds |-> selectedDuration * SecondsPerMinute, text |-> inputValue]

(* The duration in seconds and the stored text of a new reminder: the       *)
(* selected duration and the input as typed, unless the input starts with a *)
(* [minutes] prefix of a positive number                                    *)
DurationAndText(inputValue, selectedDuration) ==
    LET k       == PrefixEnd(inputValue)
        minutes == IF k = 0 THEN 0 ELSE DecimalValue(SubSeq(inputValue, 2, k - 1))
        rest    == IF k = 0 THEN << >>
                   ELSE TrimStart(SubSeq(inputValue, k + 1, Len(inputValue)))
    IN  IF k # 0 /\ minutes > 0
        THEN [seconds |-> minutes * SecondsPerMinute,
              text    |-> IF rest = << >> THEN DefaultText ELSE rest]
        ELSE [seconds |-> selectedDuration * SecondsPerMinute,
              text    |-> inputValue]

----------------------------------------------------------------------------
(* State *)

VARIABLES
    platform,     \* Capacitor.getPlatform(): fixed for the run
    now,          \* the reading of Date.now()
    permission,   \* the platform's notification permission
    deferTime,    \* settings.deferTime
    reminders,    \* the reminders state of App, newest first
    tasks,        \* the calls suspended at an await: a bag of tasks
    osPending,    \* the alarms registered with the OS scheduler: a bag of [id, at]
    nextUid,      \* number of reminders created so far
    manager,      \* the NotificationManager singleton
    cleanupAt,    \* the instants the pending midnight-cleanup timeouts are set for: a bag
    event         \* the step just taken, when it is a handler's or the tick's

vars == << platform, now, permission, deferTime, reminders, tasks, osPending,
           nextUid, manager, cleanupAt, event >>

(* uid, dispatched and shown are not fields of the program's reminder.  uid  *)
(* numbers the reminders in the order of their creation, to tell apart two  *)
(* that share an id; dispatched counts the calls of triggerWebNotification  *)
(* for the reminder since its targetTime was last set, and shown those of   *)
(* them that displayed a notification; rejected tells that the platform     *)
(* rejected the last schedule call made for the reminder's id.              *)
NewReminder(uid, id, text, durationSeconds, t) ==
    [uid |-> uid, id |-> id, text |-> text,
     originalDuration |-> durationSeconds, remaining |-> durationSeconds,
     targetTime |-> t + durationSeconds * MsPerSecond,
     createdAt |-> t, notified |-> FALSE,
     dispatched |-> 0, shown |-> 0, rejected |-> FALSE]

(* call: the handler this step called; done: what this step completed; id,  *)
(* sel: the reminder id and the reminder uids it was about; alert: the      *)
(* message it showed to the user; args: the arguments of the call, when the *)
(* step records them                                                        *)
Event(call, done, id, sel, alert) ==
    [call |-> call, done |-> done, id |-> id, sel |-> sel, alert |-> alert,
     args |-> << >>]

(* the event of a call with arguments *)
CallEvent(call, done, id, sel, alert, args) ==
    [Event(call, done, id, sel, alert) EXCEPT !.args = args]

NoEvent == Event("none", "none", 0, {}, "none")

Range(s) == { s[i] : i \in 1..Len(s) }

MapSeq(s, F(_)) == [ i \in 1..Len(s) |-> F(s[i]) ]

(* A suspended task.  kind "schedule": NotificationManager.schedule         *)
(* awaiting the platform, called by owner; "cancel": the cancel(id) that    *)
(* handleDelete does not await; "defer": handleDeferAll awaiting            *)
(* Promise.all, one branch per selected reminder.                           *)
Task(kind, owner, id, minutes, seconds, at, target, branches) ==
    [kind |-> kind, owner |-> owner, id |-> id, minutes |-> minutes,
     seconds |-> seconds, at |-> at, target |-> target, branches |-> branches]

Branch(uid, id, pc, at) == [uid |-> uid, id |-> id, pc |-> pc, at |-> at]

One(x) == SetToBag({x})

InFlight == BagCardinality(tasks)

(* a timeout set for the midnight the day of t began with *)
MidnightOfToday(t) == StartOfDay(t)

(* The singleton after its constructor.  channels and actionTypes are not   *)
(* fields of the program: they count the calls of                           *)
(* LocalNotifications.createChannel and registerActionTypes this process    *)
(* has made.                                                                *)
NewManager == [initialized |-> FALSE, channels |-> 0, actionTypes |-> 0]

(* init(), from its test of this.initialized to its end, when no other call *)
(* of init begins in between                                                *)
init(m, plat) ==
    IF plat # "web" /\ ~m.initialized
    THEN [initialized |-> TRUE, channels |-> m.channels + 1,
          actionTypes |-> m.actionTypes + 1]
    ELSE m

(* midnight.setHours(24, 0, 0, 0): the local midnight that follows t *)
NextMidnight(t) == StartOfDay(t) + MsPerDay

(* the state after App has mounted at clock reading t with nothing stored *)
Mounted(t) ==
    /\ platform \in Platforms
    /\ now = t
    /\ cleanupAt = One(NextMidnight(t))
    /\ manager = NewManager
    /\ permission = "default"
    /\ deferTime \in DeferTimes
    /\ reminders = << >>
    /\ tasks = EmptyBag
    /\ osPending = EmptyBag
    /\ nextUid = 0
    /\ event = NoEvent

Init == Mounted(T0)

----------------------------------------------------------------------------
(* The platform's scheduler (spec 4.2, 6): schedule registers an alarm for  *)
(* an absolute instant, cancel removes every alarm registered under the id, *)
(* and an alarm is delivered, and no longer pending, once its instant has   *)
(* come.                                                                    *)

Alarm(id, at) == [id |-> id, at |-> at]

OsSchedule(pending, id, at, t) ==
    IF at <= t THEN pending ELSE pending (+) One(Alarm(id, at))

OsCancel(pending, id) ==
    LET keep == { a \in BagToSet(pending) : a.id # id }
    IN  [ a \in keep |-> pending[a] ]

OsDeliver(pending, t) ==
    LET keep == { a \in BagToSet(pending) : a.at > t }
    IN  [ a \in keep |-> pending[a] ]

AlarmsOf(pending, id) ==
    LET mine == { a \in BagToSet(pending) : a.id = id }
    IN  BagCardinality([ a \in mine |-> pending[a] ])

----------------------------------------------------------------------------
(* NotificationManager *)

(* requestPermissions: the platform asks the user while the permission is   *)
(* undecided and answers with the stored decision afterwards                *)
PermissionResults(perm) ==
    IF perm = "default" THEN PermissionStates ELSE {perm}

(* schedule(title, body, seconds, id) on a native platform, up to its await *)
(* of LocalNotifications.schedule: triggerTime = Date.now() + seconds*1000  *)
TriggerTime(seconds, t) ==
    IF seconds = NaN THEN NaN ELSE t + seconds * MsPerSecond

ScheduleCall(owner, seconds, id, t) ==
    Task("schedule", owner, id, 0, seconds, TriggerTime(seconds, t), 0, << >>)

(* schedule resumes: the platform has registered the alarm *)
ScheduleDone(task) ==
    /\ task \in BagToSet(tasks)
    /\ task.kind = "schedule"
    /\ osPending' = OsSchedule(osPending, task.id, task.at, now)
    /\ tasks' = tasks (-) One(task)
    /\ event' = NoEvent
    /\ UNCHANGED << platform, manager, cleanupAt, now, permission, deferTime, reminders, nextUid >>

(* a catch block that takes the reminder out of the store again *)
RolledBackStore(rs, id) == SelectSeq(rs, LAMBDA r : r.id # id)

(* the store after a rejected schedule call for id: the catch block of      *)
(* handleAddReminder, and the unhandled rejection of the call handleSnooze  *)
(* does not await, leave it as it is                                        *)
RejectedStore(rs, id) ==
    [ i \in 1..Len(rs) |->
        IF rs[i].id = id THEN [rs[i] EXCEPT !.rejected = TRUE] ELSE rs[i] ]

(* schedule resumes: the platform has rejected the call, schedule rethrows, *)
(* and handleAddReminder alerts 'Failed to add reminder'                    *)
ScheduleFailed(task) ==
    /\ task \in BagToSet(tasks)
    /\ task.kind = "schedule"
    /\ tasks' = tasks (-) One(task)
    /\ reminders' = RejectedStore(reminders, task.id)
    /\ event' = Event("none", "schedule.failed", task.id, {},
                      IF task.owner = "create" THEN "FailedToAdd" ELSE "none")
    /\ UNCHANGED << platform, manager, cleanupAt, now, permission, deferTime, osPending, nextUid >>

(* the cancel(id) that handleDelete started takes effect *)
CancelDone(task) ==
    /\ task \in BagToSet(tasks)
    /\ task.kind = "cancel"
    /\ osPending' = OsCancel(osPending, task.id)
    /\ tasks' = tasks (-) One(task)
    /\ event' = NoEvent
    /\ UNCHANGED << platform, manager, cleanupAt, now, permission, deferTime, reminders, nextUid >>

(* what a caller of cancel sees when the platform rejects: an error *)
CancelRethrown == "cancel.rejected"

(* what a caller of cancel sees when the platform rejects: the catch block  *)
(* of cancel logs the error and cancel returns                              *)
CancelCaught == "cancel.resolved"

(* the platform has rejected the cancel(id) that handleDelete or a direct   *)
(* caller started; no alarm is removed                                      *)
CancelFailed(task) ==
    /\ task \in BagToSet(tasks)
    /\ task.kind = "cancel"
    /\ tasks' = tasks (-) One(task)
    /\ event' = Event("none", CancelCaught, task.id, {}, "none")
    /\ UNCHANGED << platform, manager, cleanupAt, now, permission, deferTime, reminders,
                    osPending, nextUid >>

(* requestPermissions(), called by itself (SettingsView); on a native       *)
(* platform it awaits init first                                            *)
requestPermissions(answer) ==
    /\ answer \in PermissionResults(permission)
    /\ permission' = answer
    /\ manager' = init(manager, platform)
    /\ event' = Event("requestPermissions", "none", 0, {}, "none")
    /\ UNCHANGED << platform, cleanupAt, now, deferTime, reminders, tasks,
                    osPending, nextUid >>

(* init() called by schedule, suspended at one of its awaits *)
InitCall(pc, owner, seconds, id) ==
    Task(pc, owner, id, 0, seconds, 0, 0, << >>)

(* schedule(title, body, seconds, id), called by itself.  On the web it     *)
(* awaits requestPermissions and returns.  On a native platform it awaits   *)
(* init, which returns at once when the singleton is initialized and calls  *)
(* LocalNotifications.createChannel otherwise, and then goes on to its      *)
(* await of LocalNotifications.schedule without a look at the permission    *)
schedule(seconds, id, answer) ==
    /\ IF platform = "web"
       THEN /\ answer \in PermissionResults(permission)
            /\ permission' = answer
            /\ event' = CallEvent("schedule", "schedule.resolved", id, {}, "none",
                                  << seconds >>)
            /\ UNCHANGED << tasks, manager >>
       ELSE /\ answer = permission
            /\ InFlight < MaxCalls
            /\ BagCardinality(osPending) + InFlight < MaxAlarms
            /\ IF manager.initialized
               THEN /\ tasks' = tasks (+) One(ScheduleCall("caller", seconds, id, now))
                    /\ UNCHANGED manager
               ELSE /\ tasks' = tasks (+) One(InitCall("init.channel", "caller", seconds, id))
                    /\ manager' = [manager EXCEPT !.channels = @ + 1]
            /\ event' = CallEvent("schedule", "started", id, {}, "none", << seconds >>)
            /\ UNCHANGED permission
    /\ UNCHANGED << platform, cleanupAt, now, deferTime, reminders, osPending,
                    nextUid >>

(* init resumes after createChannel and calls registerActionTypes *)
InitChannelDone(task) ==
    /\ task \in BagToSet(tasks)
    /\ task.kind = "init.channel"
    /\ manager' = [manager EXCEPT !.actionTypes = @ + 1]
    /\ tasks' = (tasks (-) One(task))
                    (+) One(InitCall("init.actions", task.owner, task.seconds, task.id))
    /\ event' = NoEvent
    /\ UNCHANGED << platform, cleanupAt, now, permission, deferTime, reminders,
                    osPending, nextUid >>

(* init resumes after registerActionTypes, sets this.initialized and        *)
(* returns; schedule goes on to its await of LocalNotifications.schedule    *)
InitActionsDone(task) ==
    /\ task \in BagToSet(tasks)
    /\ task.kind = "init.actions"
    /\ manager' = [manager EXCEPT !.initialized = TRUE]
    /\ tasks' = (tasks (-) One(task))
                    (+) One(ScheduleCall(task.owner, task.seconds, task.id, now))
    /\ event' = Event("none", "init", task.id, {}, "none")
    /\ UNCHANGED << platform, cleanupAt, now, permission, deferTime, reminders,
                    osPending, nextUid >>

(* cancel(id), called by itself: nothing on the web, the await of           *)
(* LocalNotifications.cancel on a native platform                           *)
cancel(id) ==
    /\ IF platform = "web"
       THEN /\ event' = Event("cancel", "cancel.resolved", id, {}, "none")
            /\ UNCHANGED tasks
       ELSE /\ InFlight < MaxCalls
            /\ tasks' = tasks (+) One(Task("cancel", "caller", id, 0, 0, 0, 0, << >>))
            /\ event' = Event("cancel", "started", id, {}, "none")
    /\ UNCHANGED << platform, manager, cleanupAt, now, permission, deferTime, reminders,
                    osPending, nextUid >>

----------------------------------------------------------------------------
(* App: the timer loop *)

(* triggerWebNotification(text): the number of notifications it displays *)
triggerWebNotification(perm) == IF perm = "granted" THEN 1 ELSE 0

(* a tick that rounds the remaining seconds down *)
RecomputedFloor(r, t) ==
    IF r.targetTime = NaN THEN NaN
    ELSE Max(0, (r.targetTime - t) \div MsPerSecond)

(* remaining as the tick computes it *)
Recomputed(r, t) ==
    IF r.targetTime = NaN THEN NaN ELSE RemainingAt(r.targetTime, t)

(* a tick that does not look at the platform *)
ZeroCrossingAnyPlatform(r, t, plat) ==
    Recomputed(r, t) = 0 /\ ~r.notified

(* a tick that does not look at notified *)
ZeroCrossingRepeated(r, t, plat) ==
    Recomputed(r, t) = 0 /\ plat = "web"

(* a tick with the test of the platform inverted *)
ZeroCrossingOffWeb(r, t, plat) ==
    Recomputed(r, t) = 0 /\ ~r.notified /\ plat # "web"

(* the condition under which the tick calls triggerWebNotification *)
ZeroCrossing(r, t, plat) ==
    Recomputed(r, t) = 0 /\ ~r.notified /\ plat = "web"

(* a tick that counts down: it moves targetTime to the clock reading plus   *)
(* the remaining seconds                                                    *)
TickedReminderRebased(r, t, plat, perm) ==
    IF ZeroCrossing(r, t, plat)
    THEN [r EXCEPT !.remaining = 0, !.notified = TRUE,
                   !.dispatched = @ + 1,
                   !.shown = @ + triggerWebNotification(perm)]
    ELSE [r EXCEPT !.remaining = Recomputed(r, t),
                   !.targetTime = t + Recomputed(r, t) * MsPerSecond]

TickedReminder(r, t, plat, perm) ==
    IF ZeroCrossing(r, t, plat)
    THEN [r EXCEPT !.remaining = 0, !.notified = TRUE,
                   !.dispatched = @ + 1,
                   !.shown = @ + triggerWebNotification(perm)]
    ELSE [r EXCEPT !.remaining = Recomputed(r, t)]

Tick ==
    /\ reminders' = MapSeq(reminders,
                           LAMBDA r : TickedReminder(r, now, platform, permission))
    /\ event' = Event("none", "tick", 0, {}, "none")
    /\ UNCHANGED << platform, manager, cleanupAt, now, permission, deferTime, tasks, osPending,
                    nextUid >>

(* a cleanup that keeps the reminders that were not alerted *)
CleanedByNotified(rs) == SelectSeq(rs, LAMBDA r : ~r.notified)

(* prev.filter(r => r.remaining > 0) *)
Cleaned(rs) == SelectSeq(rs, LAMBDA r : r.remaining > 0)

(* the timeout of scheduleMidnightCleanup fires, at or after the midnight   *)
(* it was set for: it removes the reminders that are done and sets the      *)
(* timeout for the midnight that follows                                    *)
cleanupExpired ==
    /\ \E at \in BagToSet(cleanupAt) :
           /\ now >= at
           /\ cleanupAt' = (cleanupAt (-) One(at)) (+) One(NextMidnight(now))
    /\ reminders' = Cleaned(reminders)
    /\ event' = Event("none", "cleanup", 0, {}, "none")
    /\ UNCHANGED << platform, manager, now, permission, deferTime, tasks, osPending,
                    nextUid >>

(* JSON.parse(JSON.stringify(rs)): what the reminders state initialiser     *)
(* reads from what the persistence effect wrote for the list rs; the effect *)
(* runs after every change of the reminders state                           *)
JsonRoundTrip(rs) ==
    [ i \in 1..Len(rs) |->
        [rs[i] EXCEPT !.targetTime = JsonNumber(@),
                      !.remaining = JsonNumber(@),
                      !.originalDuration = JsonNumber(@)] ]

(* the process ends and App mounts again: the reminders are read from       *)
(* localStorage, the cleanup timeout is set anew and the                    *)
(* NotificationManager is constructed anew.  The permission and             *)
(* the pending alarms are the platform's, the settings are stored.  Taken   *)
(* when no call is suspended.                                               *)
Restart ==
    /\ tasks = EmptyBag
    /\ reminders' = JsonRoundTrip(reminders)
    /\ cleanupAt' = One(NextMidnight(now))
    /\ manager' = NewManager
    /\ event' = Event("none", "restart", 0, {}, "none")
    /\ UNCHANGED << platform, now, permission, deferTime, tasks, osPending, nextUid >>

(* SettingsView: handleChange, onSave = setSettings *)
handleChange(value) ==
    /\ deferTime' = value
    /\ event' = Event("settings", "settings", 0, {}, "none")
    /\ UNCHANGED << platform, manager, cleanupAt, now, permission, reminders, tasks,
                    osPending, nextUid >>

----------------------------------------------------------------------------
(* App: the handlers *)

(* a gate that lets every answer pass *)
PermissionGrantedAlways(answer) == TRUE

(* permission === 'granted' *)
PermissionGranted(answer) == answer = "granted"

(* handleAddReminder, from the resumption after requestPermissions (nothing *)
(* happens before it but the check of the input, and the init that          *)
(* requestPermissions awaits on a native platform); answer is the           *)
(* permission the platform reports                                          *)
handleAddReminder(inputValue, selectedDuration, answer) ==
    /\ IF Trim(inputValue) = << >>
       THEN /\ answer = permission
            /\ event' = CallEvent("create", "empty", 0, {}, "none",
                                   << inputValue, selectedDuration >>)
            /\ UNCHANGED << permission, manager, reminders, tasks, nextUid >>
       ELSE /\ answer \in PermissionResults(permission)
            /\ permission' = answer
            /\ manager' = init(manager, platform)
            /\ IF ~PermissionGranted(answer)
               THEN /\ event' = CallEvent("create", "none", 0, {}, "PermissionError",
                                          << inputValue, selectedDuration >>)
                    /\ UNCHANGED << reminders, tasks, nextUid >>
               ELSE LET dt == DurationAndText(inputValue, selectedDuration)
                        id == IdOf(now)
                        newReminder == NewReminder(nextUid + 1, id, dt.text, dt.seconds, now)
                    IN  /\ nextUid < MaxCreates
                        /\ platform # "web" => InFlight < MaxTasks
                        /\ reminders' = << newReminder >> \o reminders
                        /\ nextUid' = nextUid + 1
                        /\ tasks' = IF platform = "web" THEN tasks
                                    ELSE tasks (+) One(ScheduleCall("create", dt.seconds, id, now))
                        /\ event' = CallEvent("create", "create", id, {nextUid + 1}, "none",
                                              << inputValue, selectedDuration >>)
    /\ UNCHANGED << platform, cleanupAt, now, deferTime, osPending >>

(* the pending alarms a handler finds when it goes on without having       *)
(* awaited its cancel(id)                                                   *)
CancelNotAwaited(pending, id) == pending

(* await notificationManager.cancel(id) in handleSnooze and in a branch of  *)
(* handleDeferAll: the pending alarms the handler finds when it goes on     *)
CancelAwaited(pending, id) == OsCancel(pending, id)

(* an updater without the test of the id *)
SnoozedReminderAny(r, id, minutes, t) ==
    [r EXCEPT !.targetTime = t + (minutes * SecondsPerMinute) * MsPerSecond,
              !.remaining = minutes * SecondsPerMinute,
              !.notified = FALSE,
              !.dispatched = 0, !.shown = 0, !.rejected = FALSE]

(* an updater that leaves notified as it was *)
SnoozedReminderKeepingNotified(r, id, minutes, t) ==
    IF r.id = id
    THEN [r EXCEPT !.targetTime = t + (minutes * SecondsPerMinute) * MsPerSecond,
                   !.remaining = minutes * SecondsPerMinute,
                   !.dispatched = 0, !.shown = 0, !.rejected = FALSE]
    ELSE r

(* the updater of handleSnooze *)
SnoozedReminder(r, id, minutes, t) ==
    IF r.id = id
    THEN [r EXCEPT !.targetTime = t + (minutes * SecondsPerMinute) * MsPerSecond,
                   !.remaining = minutes * SecondsPerMinute,
                   !.notified = FALSE,
                   !.dispatched = 0, !.shown = 0, !.rejected = FALSE]
    ELSE r

(* an updater that calls schedule whether or not a reminder has the id *)
SnoozeSchedulesAlways(rs, id, minutes, t) ==
    One(ScheduleCall("snooze", minutes * SecondsPerMinute, id, t))

(* the schedule calls the updater of handleSnooze makes: one per reminder   *)
(* with the id                                                              *)
RECURSIVE SnoozeSchedules(_, _, _, _)
SnoozeSchedules(rs, id, minutes, t) ==
    IF rs = << >> THEN EmptyBag
    ELSE (IF Head(rs).id = id
          THEN One(ScheduleCall("snooze", minutes * SecondsPerMinute, id, t))
          ELSE EmptyBag)
         (+) SnoozeSchedules(Tail(rs), id, minutes, t)

(* handleSnooze(id, minutes), from its resumption after the awaited         *)
(* cancel(id), before which it does nothing: the cancel has taken effect,   *)
(* the handler updates the store and, in the updater, calls schedule        *)
(* without awaiting it.  On the web cancel and schedule do nothing to the   *)
(* OS scheduler.  The init that schedule awaits is taken with the call: in  *)
(* the runs of App a reminder exists only after a create of the same        *)
(* process, whose requestPermissions has initialized the singleton.         *)
handleSnooze(id, minutes) ==
    /\ reminders' = MapSeq(reminders, LAMBDA r : SnoozedReminder(r, id, minutes, now))
    /\ IF platform = "web"
       THEN UNCHANGED << tasks, osPending, manager >>
       ELSE /\ InFlight < MaxTasksAtSnooze
            /\ osPending' = CancelAwaited(osPending, id)
            /\ tasks' = tasks (+) SnoozeSchedules(reminders, id, minutes, now)
            /\ manager' = IF SnoozeSchedules(reminders, id, minutes, now) = EmptyBag
                          THEN manager ELSE init(manager, platform)
    /\ event' = CallEvent("snooze", "snooze", id, {}, "none", << minutes >>)
    /\ UNCHANGED << platform, cleanupAt, now, permission, deferTime, nextUid >>

(* handleDelete: the store loses the reminder at once; on a native platform *)
(* the cancel is started and not awaited                                    *)
handleDelete(id) ==
    /\ reminders' = SelectSeq(reminders, LAMBDA r : r.id # id)
    /\ tasks' = IF platform = "web" THEN tasks
                ELSE tasks (+) One(Task("cancel", "dismiss", id, 0, 0, 0, 0, << >>))
    /\ event' = Event("dismiss", "dismiss", id, {}, "none")
    /\ UNCHANGED << platform, manager, cleanupAt, now, permission, deferTime, osPending, nextUid >>

(* activeReminders = reminders.filter(r => r.remaining > 0) *)
ActiveReminders(rs) == SelectSeq(rs, LAMBDA r : r.remaining > 0)

(* a handler without the check for an empty selection *)
NothingToDeferNever(active) == FALSE

(* if (activeReminders.length === 0) *)
NothingToDefer(active) == active = << >>

(* the instant handleDeferAll defers to, read at clock reading t *)
DeferTarget(t, setting) == TomorrowAt(t, ParseDeferTime(setting))

(* the updater of handleDeferAll *)
DeferredReminder(r, target, seconds) ==
    IF r.remaining > 0
    THEN [r EXCEPT !.targetTime = target, !.remaining = seconds,
                   !.notified = FALSE, !.originalDuration = seconds,
                   !.dispatched = 0, !.shown = 0, !.rejected = FALSE]
    ELSE r

(* handleDeferAll is called.  confirmed is the user's answer to             *)
(* window.confirm.  On the web the awaited cancel and schedule calls do not *)
(* suspend the handler, which runs to its store update.                     *)
handleDeferAll(confirmed) ==
    /\ LET active  == ActiveReminders(reminders)
           sel     == { r.uid : r \in Range(active) }
           target  == DeferTarget(now, deferTime)
           seconds == SecondsUntil(target, now)
       IN  IF NothingToDefer(active)
           THEN /\ confirmed
                /\ event' = Event("deferAll", "none", 0, {}, "NothingToDefer")
                /\ UNCHANGED << reminders, tasks >>
           ELSE IF ~confirmed
           THEN /\ event' = Event("deferAll", "none", 0, sel, "none")
                /\ UNCHANGED << reminders, tasks >>
           ELSE IF platform = "web"
           THEN /\ reminders' = MapSeq(reminders,
                                       LAMBDA r : DeferredReminder(r, target, seconds))
                /\ event' = Event("deferAll", "deferAll", 0, sel, "none")
                /\ UNCHANGED tasks
           ELSE /\ InFlight < MaxTasks
                /\ tasks' = tasks (+) One(
                        Task("defer", "deferAll", 0, 0, seconds, 0, target,
                             MapSeq(active, LAMBDA r : Branch(r.uid, r.id, "cancel", 0))))
                /\ event' = Event("deferAll", "started", 0, sel, "none")
                /\ UNCHANGED reminders
    /\ UNCHANGED << platform, manager, cleanupAt, now, permission, deferTime, osPending, nextUid >>

(* one branch of Promise.all resumes after cancel(r.id) and calls schedule *)
DeferCancelDone(task, b) ==
    /\ task \in BagToSet(tasks)
    /\ task.kind = "defer"
    /\ b \in 1..Len(task.branches)
    /\ task.branches[b].pc = "cancel"
    /\ LET br == task.branches[b]
           resumed == [task EXCEPT !.branches[b] =
                           Branch(br.uid, br.id, "schedule", TriggerTime(task.seconds, now))]
       IN  /\ osPending' = CancelAwaited(osPending, br.id)
           /\ tasks' = (tasks (-) One(task)) (+) One(resumed)
           /\ manager' = init(manager, platform)
           /\ event' = Event("none", "defer.cancel", br.id, {br.uid}, "none")
    /\ UNCHANGED << platform, cleanupAt, now, permission, deferTime, reminders, nextUid >>

AllDone(branches) == \A b \in 1..Len(branches) : branches[b].pc = "done"

(* every branch has completed or thrown *)
Settled(branches) ==
    \A b \in 1..Len(branches) : branches[b].pc \in {"done", "failed"}

(* the step in which the last branch of a rejected Promise.all settles: the *)
(* call of handleDeferAll has thrown and there is nothing left of it        *)
DeferRejected(task, id, sel) ==
    /\ tasks' = tasks (-) One(task)
    /\ event' = CallEvent("none", "defer.rejected", id, sel, "none", << task.target >>)

(* one branch resumes after schedule; when it is the last one, Promise.all  *)
(* resolves and handleDeferAll updates the store.  When another branch has  *)
(* thrown, Promise.all has rejected and the store update is never reached.  *)
DeferScheduleDone(task, b) ==
    /\ task \in BagToSet(tasks)
    /\ task.kind = "defer"
    /\ b \in 1..Len(task.branches)
    /\ task.branches[b].pc = "schedule"
    /\ LET br   == task.branches[b]
           brs  == [task.branches EXCEPT ![b] = Branch(br.uid, br.id, "done", br.at)]
           sel  == { x.uid : x \in Range(brs) }
       IN  /\ osPending' = OsSchedule(osPending, br.id, br.at, now)
           /\ IF AllDone(brs)
              THEN /\ reminders' = MapSeq(reminders,
                            LAMBDA r : DeferredReminder(r, task.target, task.seconds))
                   /\ tasks' = tasks (-) One(task)
                   /\ event' = Event("none", "deferAll", br.id, sel, "none")
              ELSE IF Settled(brs)
              THEN /\ DeferRejected(task, br.id, sel)
                   /\ UNCHANGED reminders
              ELSE /\ tasks' = (tasks (-) One(task)) (+) One([task EXCEPT !.branches = brs])
                   /\ event' = Event("none", "defer.schedule", br.id, {br.uid}, "none")
                   /\ UNCHANGED reminders
    /\ UNCHANGED << platform, manager, cleanupAt, now, permission, deferTime, nextUid >>

(* the platform rejects the schedule call of one branch: schedule rethrows, *)
(* the branch throws and Promise.all rejects; handleDeferAll has no catch,  *)
(* so the rejection ends the call before its store update.  The other       *)
(* branches go on.                                                          *)
DeferScheduleFailed(task, b) ==
    /\ task \in BagToSet(tasks)
    /\ task.kind = "defer"
    /\ b \in 1..Len(task.branches)
    /\ task.branches[b].pc = "schedule"
    /\ LET br   == task.branches[b]
           brs  == [task.branches EXCEPT ![b] = Branch(br.uid, br.id, "failed", br.at)]
           sel  == { x.uid : x \in Range(brs) }
       IN  /\ reminders' = RejectedStore(reminders, br.id)
           /\ IF Settled(brs)
              THEN DeferRejected(task, br.id, sel)
              ELSE /\ tasks' = (tasks (-) One(task)) (+) One([task EXCEPT !.branches = brs])
                   /\ event' = Event("none", "defer.failed", br.id, {br.uid}, "none")
    /\ UNCHANGED << platform, manager, cleanupAt, now, permission, deferTime, osPending, nextUid >>

(* a listener whose second branch has no test of the actionId *)
ActionHandlerElseDismiss(actionId) ==
    IF actionId = "SNOOZE" THEN "handleSnooze" ELSE "handleDelete"

(* the handler the localNotificationActionPerformed listener calls *)
ActionHandler(actionId) ==
    IF actionId = "SNOOZE" THEN "handleSnooze"
    ELSE IF actionId = "DISMISS" THEN "handleDelete"
    ELSE "none"

(* the listener runs for an action on the notification of id; it is         *)
(* registered on a native platform only                                     *)
localNotificationActionPerformed(actionId, id) ==
    /\ platform # "web"
    /\ LET handler == ActionHandler(actionId)
       IN  IF handler = "handleSnooze" THEN handleSnooze(id, DefaultSnoozeMinutes)
           ELSE IF handler = "handleDelete"
           THEN InFlight < MaxTasks /\ handleDelete(id)
           ELSE /\ event' = Event("action", "none", id, {}, "none")
                /\ UNCHANGED << platform, manager, cleanupAt, now, permission, deferTime,
                                reminders, tasks, osPending, nextUid >>

----------------------------------------------------------------------------
(* The environment *)

(* time passes; the OS delivers the alarms whose instant has come *)
ClockAdvance(t) ==
    /\ t > now
    /\ now' = t
    /\ osPending' = OsDeliver(osPending, t)
    /\ event' = NoEvent
    /\ UNCHANGED << platform, manager, cleanupAt, permission, deferTime, reminders, tasks, nextUid >>

(* the user changes the notification permission of the site in the         *)
(* browser's settings; Notification.permission is read anew at every call   *)
(* of triggerWebNotification                                                *)
PermissionChanged(perm) ==
    /\ platform = "web"
    /\ perm # permission
    /\ permission' = perm
    /\ event' = NoEvent
    /\ UNCHANGED << platform, manager, cleanupAt, now, deferTime, reminders, tasks, osPending,
                    nextUid >>

(* the ids a handler can be called with: every id a reminder can have got  *)
(* so far, whether or not the reminder is still in the store                *)
CallableIds == { IdOf(t) : t \in { u \in Instants : u <= now } }

Next ==
    \/ \E text \in Texts, d \in Durations, answer \in PermissionStates :
           handleAddReminder(text, d, answer)
    \/ \E id \in CallableIds, m \in SnoozeMinutes : handleSnooze(id, m)
    \/ \E id \in CallableIds :
           (platform # "web" => InFlight < MaxTasks) /\ handleDelete(id)
    \/ \E c \in BOOLEAN : handleDeferAll(c)
    \/ \E task \in BagToSet(tasks) : ScheduleDone(task)
    \/ \E task \in BagToSet(tasks) : CancelDone(task)
    \/ \E task \in BagToSet(tasks) : \E b \in 1..Len(task.branches) : DeferCancelDone(task, b)
    \/ \E task \in BagToSet(tasks) : \E b \in 1..Len(task.branches) : DeferScheduleDone(task, b)
    \/ Tick
    \/ \E t \in Instants : ClockAdvance(t)

Spec == Init /\ [][Next]_vars

(* The runs of a native platform in which a dismiss may begin while another *)
(* call is still suspended at its await.                                    *)
InitNative == Init /\ platform # "web"

NextOverlap ==
    \/ \E text \in Texts, d \in Durations, answer \in PermissionStates :
           handleAddReminder(text, d, answer)
    \/ \E id \in CallableIds, m \in SnoozeMinutes : handleSnooze(id, m)
    \/ \E id \in CallableIds : InFlight < MaxTasksAtDismiss /\ handleDelete(id)
    \/ \E c \in BOOLEAN : handleDeferAll(c)
    \/ \E task \in BagToSet(tasks) : ScheduleDone(task)
    \/ \E task \in BagToSet(tasks) : CancelDone(task)
    \/ \E task \in BagToSet(tasks) : \E b \in 1..Len(task.branches) : DeferCancelDone(task, b)
    \/ \E task \in BagToSet(tasks) : \E b \in 1..Len(task.branches) : DeferScheduleDone(task, b)
    \/ Tick
    \/ \E t \in Instants : ClockAdvance(t)

SpecOverlap == InitNative /\ [][NextOverlap]_vars

(* The runs of a native platform in which the platform may reject a         *)
(* schedule call.                                                           *)
NextFailure ==
    \/ \E text \in Texts, d \in Durations, answer \in PermissionStates :
           handleAddReminder(text, d, answer)
    \/ \E id \in CallableIds, m \in SnoozeMinutes : handleSnooze(id, m)
    \/ \E id \in CallableIds : InFlight < MaxTasks /\ handleDelete(id)
    \/ \E c \in BOOLEAN : handleDeferAll(c)
    \/ \E task \in BagToSet(tasks) : ScheduleDone(task)
    \/ \E task \in BagToSet(tasks) : ScheduleFailed(task)
    \/ \E task \in BagToSet(tasks) : CancelDone(task)
    \/ \E task \in BagToSet(tasks) : \E b \in 1..Len(task.branches) : DeferCancelDone(task, b)
    \/ \E task \in BagToSet(tasks) : \E b \in 1..Len(task.branches) : DeferScheduleDone(task, b)
    \/ Tick
    \/ \E t \in Instants : ClockAdvance(t)

SpecFailure == InitNative /\ [][NextFailure]_vars

(* The runs of a native platform in which the platform may reject the       *)
(* schedule call of a branch of deferAll.                                   *)
NextDeferFailure ==
    \/ \E text \in Texts, d \in Durations, answer \in PermissionStates :
           handleAddReminder(text, d, answer)
    \/ \E c \in BOOLEAN : handleDeferAll(c)
    \/ \E task \in BagToSet(tasks) : ScheduleDone(task)
    \/ \E task \in BagToSet(tasks) : \E b \in 1..Len(task.branches) : DeferCancelDone(task, b)
    \/ \E task \in BagToSet(tasks) : \E b \in 1..Len(task.branches) : DeferScheduleDone(task, b)
    \/ \E task \in BagToSet(tasks) : \E b \in 1..Len(task.branches) : DeferScheduleFailed(task, b)
    \/ Tick
    \/ \E t \in Instants : ClockAdvance(t)

SpecDeferFailure == InitNative /\ [][NextDeferFailure]_vars

(* The runs on the web in which the interval of the timer loop keeps        *)
(* firing: setInterval calls the tick every second for as long as App is    *)
(* mounted.                                                                 *)
InitWeb == Init /\ platform = "web"

NextWeb ==
    \/ \E text \in Texts, d \in Durations, answer \in PermissionStates :
           handleAddReminder(text, d, answer)
    \/ \E id \in CallableIds, m \in SnoozeMinutes : handleSnooze(id, m)
    \/ \E id \in CallableIds : handleDelete(id)
    \/ \E c \in BOOLEAN : handleDeferAll(c)
    \/ Tick
    \/ \E t \in Instants : ClockAdvance(t)

SpecTicking == InitWeb /\ [][NextWeb]_vars /\ WF_vars(Tick)

(* The runs on the web in which the permission may change between the       *)
(* creation of a reminder and the time it is due.                           *)
NextPermission ==
    \/ \E text \in Texts, d \in Durations, answer \in PermissionStates :
           handleAddReminder(text, d, answer)
    \/ \E id \in CallableIds, m \in SnoozeMinutes : handleSnooze(id, m)
    \/ \E id \in CallableIds : handleDelete(id)
    \/ \E c \in BOOLEAN : handleDeferAll(c)
    \/ \E perm \in PermissionStates : PermissionChanged(perm)
    \/ Tick
    \/ \E t \in Instants : ClockAdvance(t)

SpecPermission == InitWeb /\ [][NextPermission]_vars

(* The runs of a native platform in which reminders are created and snooze  *)
(* and dismiss come from the actions of the notifications.                  *)
NextAction ==
    \/ \E text \in Texts, d \in Durations, answer \in PermissionStates :
           handleAddReminder(text, d, answer)
    \/ \E actionId \in ActionIds, id \in CallableIds :
           localNotificationActionPerformed(actionId, id)
    \/ \E task \in BagToSet(tasks) : ScheduleDone(task)
    \/ \E task \in BagToSet(tasks) : CancelDone(task)
    \/ Tick
    \/ \E t \in Instants : ClockAdvance(t)

SpecAction == InitNative /\ [][NextAction]_vars

(* The runs that only create, with the inputs of InputTexts and             *)
(* InputDurations.                                                          *)
NextInput ==
    \/ \E text \in InputTexts, d \in InputDurations, answer \in PermissionStates :
           handleAddReminder(text, d, answer)
    \/ \E task \in BagToSet(tasks) : ScheduleDone(task)
    \/ Tick
    \/ \E t \in Instants : ClockAdvance(t)

SpecInput == Init /\ [][NextInput]_vars

(* The id allocation of handleAddReminder by itself, at any wide reading of *)
(* the clock.                                                               *)
AllocateId(c) ==
    /\ event' = CallEvent("create", "id", IdOfWide(c), {}, "none", << c.q, c.r >>)
    /\ UNCHANGED << platform, manager, cleanupAt, now, permission, deferTime, reminders,
                    tasks, osPending, nextUid >>

NextId == \E c \in WideClocks : AllocateId(c)

SpecId == Init /\ [][NextId]_vars

(* The runs of NotificationManager by itself: its methods are called with   *)
(* any of two ids and two delays, in any order, and the platform may reject *)
(* a call.                                                                  *)
PortIds == { IdOf(T0), IdOf(T0 + 400) }
PortSeconds == { DefaultSnoozeMinutes * SecondsPerMinute, 15 * SecondsPerMinute }

NextPort ==
    \/ \E answer \in PermissionStates : requestPermissions(answer)
    \/ \E seconds \in PortSeconds, id \in PortIds, answer \in PermissionStates :
           schedule(seconds, id, answer)
    \/ \E id \in PortIds : cancel(id)
    \/ \E task \in BagToSet(tasks) : InitChannelDone(task)
    \/ \E task \in BagToSet(tasks) : InitActionsDone(task)
    \/ \E task \in BagToSet(tasks) : ScheduleDone(task)
    \/ \E task \in BagToSet(tasks) : ScheduleFailed(task)
    \/ \E task \in BagToSet(tasks) : CancelDone(task)
    \/ \E task \in BagToSet(tasks) : CancelFailed(task)
    \/ \E t \in Instants : ClockAdvance(t)

SpecPort == Init /\ [][NextPort]_vars

(* The runs over a midnight: App mounts at 23:50. *)
InitDay == Mounted(D0)

DayCallableIds == { IdOf(t) : t \in { u \in DayInstants : u <= now } }

NextDay ==
    \/ \E text \in Texts, d \in Durations, answer \in PermissionStates :
           handleAddReminder(text, d, answer)
    \/ \E id \in DayCallableIds, m \in SnoozeMinutes : handleSnooze(id, m)
    \/ \E id \in DayCallableIds :
           (platform # "web" => InFlight < MaxTasks) /\ handleDelete(id)
    \/ \E c \in BOOLEAN : handleDeferAll(c)
    \/ \E task \in BagToSet(tasks) : ScheduleDone(task)
    \/ \E task \in BagToSet(tasks) : CancelDone(task)
    \/ \E task \in BagToSet(tasks) : \E b \in 1..Len(task.branches) : DeferCancelDone(task, b)
    \/ \E task \in BagToSet(tasks) : \E b \in 1..Len(task.branches) : DeferScheduleDone(task, b)
    \/ Tick
    \/ cleanupExpired
    \/ \E t \in DayInstants : ClockAdvance(t)

SpecDay == InitDay /\ [][NextDay]_vars

(* The runs over two midnights in which reminders are created and become    *)
(* due, and the process may restart.                                        *)
NextNights ==
    \/ \E text \in Texts, d \in Durations, answer \in PermissionStates :
           handleAddReminder(text, d, answer)
    \/ \E task \in BagToSet(tasks) : ScheduleDone(task)
    \/ Tick
    \/ cleanupExpired
    \/ Restart
    \/ \E t \in NightInstants : ClockAdvance(t)

SpecNights == InitDay /\ [][NextNights]_vars

(* The runs on the web, over a midnight, in which the defer time is set in  *)
(* the settings and the process restarts.  Persistence is the same code on  *)
(* every platform; on the web no call is ever suspended.                    *)
InitRestart == InitDay /\ platform = "web"

NextRestart ==
    \/ \E text \in Texts, d \in Durations, answer \in PermissionStates :
           handleAddReminder(text, d, answer)
    \/ \E id \in DayCallableIds, m \in SnoozeMinutes : handleSnooze(id, m)
    \/ \E id \in DayCallableIds : handleDelete(id)
    \/ \E c \in BOOLEAN : handleDeferAll(c)
    \/ \E value \in StorableDeferTimes : handleChange(value)
    \/ Tick
    \/ cleanupExpired
    \/ Restart
    \/ \E t \in DayInstants : ClockAdvance(t)

SpecRestart == InitRestart /\ [][NextRestart]_vars

----------------------------------------------------------------------------
(* Properties *)

(* C1: after any interleaving of create, snooze, deferAll and dismiss and   *)
(* of their cancel and schedule calls, the OS scheduler holds at most one   *)
(* pending alarm for each reminder id.                                      *)
C1_AtMostOneAlarmPerId ==
    \A a \in BagToSet(osPending) : AlarmsOf(osPending, a.id) <= 1

(* C2: after every tick, every reminder's remaining is                      *)
(* max(0, ceil((targetTime - now) / 1000)) for the clock reading of that    *)
(* tick, however far the clock has advanced since the tick before.          *)
C2_RemainingAfterTick ==
    event.done = "tick" =>
        \A r \in Range(reminders) :
            LET ms == r.targetTime - now
            IN  r.remaining = IF ms <= 0 THEN 0
                              ELSE (ms + (MsPerSecond - 1)) \div MsPerSecond

(* a tick has just run on a reminder whose time left is not a whole number  *)
(* of seconds, and on one the clock has jumped past                         *)
C2_Witness ==
    /\ event.done = "tick"
    /\ \E r \in Range(reminders) :
           r.targetTime > now /\ (r.targetTime - now) % MsPerSecond # 0
    /\ \E r \in Range(reminders) : r.targetTime < now

(* C3: on a native platform (Durable-Schedule) the tick never dispatches an *)
(* alert and never sets notified; where the tick does alert (the web) no    *)
(* alarm is ever handed to the OS.  So no due-crossing gets both.           *)
C3_OneAlertPath ==
    /\ platform # "web" =>
           \A r \in Range(reminders) : ~r.notified /\ r.dispatched = 0
    /\ platform = "web" => osPending = EmptyBag /\ tasks = EmptyBag

(* on a native platform a tick has just run on a reminder that is due *)
C3_Witness ==
    /\ platform # "web"
    /\ event.done = "tick"
    /\ \E r \in Range(reminders) : r.targetTime <= now /\ r.remaining = 0

(* C4: on the web (Immediate-Display) the tick dispatches the alert of a    *)
(* reminder at most once for each setting of its targetTime, and a reminder *)
(* that was alerted has remaining = 0 and notified = TRUE.                  *)
C4_AlertedOnce ==
    platform = "web" =>
        \A r \in Range(reminders) :
            /\ r.dispatched <= 1
            /\ r.dispatched = 1 => r.remaining = 0 /\ r.notified

(* on the web a tick has just run on a reminder that was alerted *)
C4_Witness ==
    /\ platform = "web"
    /\ event.done = "tick"
    /\ \E r \in Range(reminders) : r.dispatched = 1 /\ r.notified /\ r.remaining = 0

(* C5: in every reachable state a reminder with remaining > 0 has notified  *)
(* = FALSE.                                                                 *)
C5_PendingNotNotified ==
    \A r \in Range(reminders) : r.remaining > 0 => ~r.notified

(* on the web a reminder has just been snoozed after the time it was first  *)
(* due                                                                      *)
C5_Witness ==
    /\ platform = "web"
    /\ event.done = "snooze"
    /\ \E r \in Range(reminders) :
           /\ r.id = event.id
           /\ r.createdAt + r.originalDuration * MsPerSecond <= now
           /\ r.remaining > 0 /\ ~r.notified

(* C6: the store never holds two reminders with the same id. *)
C6_IdsDistinct ==
    \A i, j \in 1..Len(reminders) : reminders[i].id = reminders[j].id => i = j

(* C7: right after a snooze of an id, and right after a deferAll for every  *)
(* reminder it selected, the reminder has notified = FALSE and remaining >  *)
(* 0.                                                                       *)
C7_RescheduledIsPending ==
    /\ event.done = "snooze" =>
           \A r \in Range(reminders) :
               r.id = event.id => ~r.notified /\ r.remaining > 0
    /\ event.done = "deferAll" =>
           \A r \in Range(reminders) :
               r.uid \in event.sel => ~r.notified /\ r.remaining > 0

(* C8: no step of deferAll touches a reminder whose remaining is 0: the     *)
(* step leaves the reminder as it is and neither cancels nor schedules an   *)
(* alarm for its id.                                                        *)
C8_DeferAllSkipsDue ==
    [][ event'.done \in {"defer.cancel", "defer.schedule", "deferAll"} =>
            \A i \in 1..Len(reminders) :
                reminders[i].remaining = 0 =>
                    /\ reminders'[i] = reminders[i]
                    /\ platform # "web" => reminders[i].id # event'.id ]_vars

(* C9: a deferAll called when no reminder has remaining > 0 reports         *)
(* NothingToDefer and leaves the store, the pending alarms and the calls in *)
(* flight as they are.                                                      *)
C9_NothingToDefer ==
    [][ (/\ event'.call = "deferAll"
         /\ \A r \in Range(reminders) : ~(r.remaining > 0)) =>
            /\ event'.alert = "NothingToDefer"
            /\ reminders' = reminders
            /\ osPending' = osPending
            /\ tasks' = tasks ]_vars

(* deferAll has just reported NothingToDefer on a store that holds a        *)
(* reminder                                                                 *)
C9_Witness ==
    /\ event.call = "deferAll"
    /\ event.alert = "NothingToDefer"
    /\ reminders # << >>
    /\ \A r \in Range(reminders) : r.remaining = 0

(* The configured time as the settings view writes it, "HH:MM" *)
ConfiguredHour == 10 * DigitValue(deferTime[1]) + DigitValue(deferTime[2])

ConfiguredMinute == 10 * DigitValue(deferTime[4]) + DigitValue(deferTime[5])

OccurrenceOn(day) ==
    day * MsPerDay + ConfiguredHour * MsPerHour + ConfiguredMinute * MsPerMinute

Today == now \div MsPerDay

(* the instants the deferAll of this step defers to: the target its         *)
(* suspended call holds, or the targetTime of the reminders it has updated  *)
DeferAllCalled ==
    event.call = "deferAll" /\ event.done \in {"started", "deferAll"}

DeferredTo ==
    IF event.done = "started"
    THEN { task.target : task \in { x \in BagToSet(tasks) : x.kind = "defer" } }
    ELSE { r.targetTime : r \in { x \in Range(reminders) : x.uid \in event.sel } }

(* C10, as the spec states it: deferAll defers to the next occurrence of    *)
(* the configured hour:minute strictly after now, today's when it has not   *)
(* passed yet and tomorrow's otherwise.                                     *)
C10_NextOccurrence ==
    DeferAllCalled =>
        \A x \in DeferredTo :
            x = IF OccurrenceOn(Today) > now THEN OccurrenceOn(Today)
                ELSE OccurrenceOn(Today + 1)

(* C10, amended: deferAll defers to tomorrow's occurrence of the configured *)
(* hour:minute, which is strictly after now, whether or not today's has     *)
(* passed.                                                                  *)
C10_TomorrowsOccurrence ==
    DeferAllCalled =>
        \A x \in DeferredTo : x = OccurrenceOn(Today + 1) /\ x > now

(* deferAll has just been called before today's occurrence of the           *)
(* configured time                                                          *)
C10_Witness ==
    /\ DeferAllCalled
    /\ DeferredTo # {}
    /\ OccurrenceOn(Today) > now

(* C11: after a deferAll with a non-empty selection all selected reminders  *)
(* have the same targetTime, notified = FALSE and originalDuration equal to *)
(* the gap in seconds between the call and that instant, and on a native    *)
(* platform an alarm of each is pending for that instant.  The call was at  *)
(* the present clock reading on the web and not after it on a native        *)
(* platform.                                                                *)
C11_DeferredTogether ==
    event.done = "deferAll" =>
        \A r \in Range(reminders) :
            r.uid \in event.sel =>
                /\ \A q \in Range(reminders) :
                       q.uid \in event.sel => q.targetTime = r.targetTime
                /\ ~r.notified
                /\ r.originalDuration * MsPerSecond >= r.targetTime - now
                /\ platform = "web" =>
                       r.originalDuration * MsPerSecond < (r.targetTime - now) + MsPerSecond
                /\ platform # "web" =>
                       \E a \in BagToSet(osPending) :
                           a.id = r.id /\ a.at >= r.targetTime

(* an input of nothing but spaces *)
Blank(text) == \A i \in 1..Len(text) : text[i] = " "

(* C13: when the permission request of a create returns anything but        *)
(* granted, the create shows a permission error, adds no reminder and       *)
(* schedules no alarm.                                                      *)
C13_PermissionGate ==
    [][ (/\ event'.call = "create"
         /\ ~Blank(event'.args[1])
         /\ permission' # "granted") =>
            /\ event'.alert = "PermissionError"
            /\ reminders' = reminders
            /\ tasks' = tasks
            /\ osPending' = osPending ]_vars

(* a create has just been refused for a denied permission *)
C13_Witness ==
    /\ event.call = "create"
    /\ ~Blank(event.args[1])
    /\ permission = "denied"
    /\ event.alert = "PermissionError"

(* C14: a create with empty or whitespace-only text leaves the store as it  *)
(* is and schedules no alarm.                                               *)
C14_BlankRejected ==
    [][ (event'.call = "create" /\ Blank(event'.args[1])) =>
            /\ reminders' = reminders
            /\ nextUid' = nextUid
            /\ tasks' = tasks
            /\ osPending' = osPending ]_vars

(* a create with a single space has just been called, with the permission   *)
(* granted and a reminder in the store                                      *)
C14_Witness ==
    /\ event.call = "create"
    /\ event.args[1] = << " " >>
    /\ permission = "granted"
    /\ reminders # << >>

(* C18: a snooze of an id that no reminder in the store has shows no error, *)
(* leaves the store as it is and registers no alarm: no schedule call is    *)
(* started and no alarm is added to the pending ones.                       *)
C18_SnoozeAbsent ==
    [][ (/\ event'.call = "snooze"
         /\ \A r \in Range(reminders) : r.id # event'.id) =>
            /\ event'.alert = "none"
            /\ reminders' = reminders
            /\ tasks' = tasks
            /\ \A a \in BagToSet(osPending') :
                   CopiesIn(a, osPending') <= CopiesIn(a, osPending) ]_vars

(* on a native platform a snooze has just been called with an id that no    *)
(* reminder of a non-empty store has                                        *)
C18_Witness ==
    /\ platform # "web"
    /\ event.call = "snooze"
    /\ reminders # << >>
    /\ \A r \in Range(reminders) : r.id # event.id

(* C19: after a snooze of a reminder that exists, its originalDuration is   *)
(* the requested minutes * 60 seconds.                                      *)
C19_SnoozeSetsOriginalDuration ==
    event.done = "snooze" =>
        \A r \in Range(reminders) :
            r.id = event.id =>
                r.originalDuration = event.args[1] * SecondsPerMinute

(* C20: after a dismiss of an id the store holds no reminder with the id    *)
(* and, once the cancel the dismiss started has taken effect, the scheduler *)
(* holds no pending alarm for it: every pending alarm belongs to a reminder *)
(* of the store or has its cancel under way.  A dismiss of an id that is    *)
(* absent shows no error.                                                   *)
C20_Dismissed ==
    /\ event.done = "dismiss" =>
           /\ \A r \in Range(reminders) : r.id # event.id
           /\ event.alert = "none"
    /\ \A a \in BagToSet(osPending) :
           \/ \E r \in Range(reminders) : r.id = a.id
           \/ \E task \in BagToSet(tasks) : task.kind = "cancel" /\ task.id = a.id

(* C16: when the schedule call of a create is rejected after the reminder   *)
(* was inserted, the reminder stays in the store: the step that handles the *)
(* rejection leaves every reminder in its place with its fields.            *)
C16_InsertNotRolledBack ==
    [][ event'.done = "schedule.failed" =>
            /\ Len(reminders') = Len(reminders)
            /\ \A i \in 1..Len(reminders) :
                   [reminders'[i] EXCEPT !.rejected = reminders[i].rejected]
                       = reminders[i] ]_vars

(* the schedule call of a create has just been rejected and the reminder it *)
(* was for is in the store                                                  *)
C16_Witness ==
    /\ event.done = "schedule.failed"
    /\ event.alert = "FailedToAdd"
    /\ \E r \in Range(reminders) : r.id = event.id /\ r.rejected

(* C17: when the platform has rejected the schedule call of a reminder and  *)
(* the loop keeps running, the loop alerts for the reminder when it is due: *)
(* after a tick at or after its targetTime the alert has been dispatched.   *)
C17_FallbackAlert ==
    event.done = "tick" =>
        \A r \in Range(reminders) :
            (r.rejected /\ r.targetTime <= now) => r.dispatched >= 1

(* C12: the midnight cleanup removes exactly the reminders with remaining   *)
(* = 0 and keeps every reminder with remaining > 0, unchanged and in the    *)
(* same order, whatever its notified flag.                                  *)
C12_CleanupExact ==
    [][ event'.done = "cleanup" =>
            /\ \A r \in Range(reminders') : r \in Range(reminders) /\ r.remaining > 0
            /\ \A r \in Range(reminders) : r.remaining > 0 => r \in Range(reminders')
            /\ Len(reminders') =
                   Cardinality({ i \in 1..Len(reminders) : reminders[i].remaining > 0 })
            /\ \A i, j \in 1..Len(reminders') :
                   i < j => \E k, l \in 1..Len(reminders) :
                                /\ k < l
                                /\ reminders[k] = reminders'[i]
                                /\ reminders[l] = reminders'[j] ]_vars

(* the cleanup has just run on a store that held a reminder that was done   *)
(* and one that was not: the first is gone, the second is there             *)
C12_Witness ==
    /\ event.done = "cleanup"
    /\ nextUid = 2
    /\ Len(reminders) = 1
    /\ reminders[1].remaining > 0
    /\ tasks = EmptyBag

(* what create has just stored, for a duration of m minutes: exactly one   *)
(* reminder more, first in the list, due m minutes from now; on a native    *)
(* platform a schedule call with a delay of m * 60 seconds and the new id   *)
(* is in flight                                                             *)
CreatedFor(m) ==
    /\ Len(reminders') = Len(reminders) + 1
    /\ Tail(reminders') = reminders
    /\ reminders'[1].id = event'.id
    /\ reminders'[1].targetTime = now + m * 60 * 1000
    /\ reminders'[1].remaining = m * 60
    /\ reminders'[1].notified = FALSE
    /\ reminders'[1].createdAt = now
    /\ platform # "web" =>
           \E task \in BagToSet(tasks') :
               /\ CopiesIn(task, tasks') = CopiesIn(task, tasks) + 1
               /\ task.kind = "schedule"
               /\ task.seconds = m * 60
               /\ task.id = event'.id

(* the N of a "[N]" at the start of the text, 0 when the text does not      *)
(* start with one                                                           *)
PrefixMinutes(text) ==
    LET closing == { k \in 3..Len(text) :
                         text[k] = "]" /\ \A j \in 2..(k - 1) : IsDigit(text[j]) }
    IN  IF Len(text) >= 3 /\ text[1] = "[" /\ closing # {}
        THEN DecimalValue(SubSeq(text, 2, (CHOOSE k \in closing : TRUE) - 1))
        ELSE 0

(* C15: a successful create(text, durationMinutes) at clock reading now     *)
(* adds exactly one reminder with targetTime = now + durationMinutes * 60 * *)
(* 1000, remaining = durationMinutes * 60, notified = FALSE and createdAt = *)
(* now, places it first in the list, and calls schedule with a delay of     *)
(* durationMinutes * 60 seconds and the new id.                             *)
C15_CreateResult ==
    [][ event'.done = "create" => CreatedFor(event'.args[2]) ]_vars

(* C15, as the code has it: the duration is the N of a leading [N] prefix   *)
(* of the text when N > 0, and durationMinutes otherwise.                   *)
C15_CreateResultOfPrefix ==
    [][ event'.done = "create" =>
            CreatedFor(IF PrefixMinutes(event'.args[1]) > 0
                       THEN PrefixMinutes(event'.args[1])
                       ELSE event'.args[2]) ]_vars

(* a create with a [5] prefix and 15 minutes selected has stored a reminder *)
(* of 5 minutes                                                             *)
C15_Witness ==
    /\ event.done = "create"
    /\ PrefixMinutes(event.args[1]) = 5
    /\ event.args[2] = 15
    /\ reminders[1].id = event.id
    /\ reminders[1].remaining = 5 * 60
    /\ reminders[1].targetTime = now + 5 * 60 * 1000

(* this step registers an alarm for id with the OS scheduler *)
Registers(id) == AlarmsOf(osPending', id) > AlarmsOf(osPending, id)

(* C21: calling schedule twice with the same id, with no cancel in between, *)
(* leaves exactly one pending alarm for that id: whenever a schedule call   *)
(* registers its alarm, that alarm is the only one pending for the id.      *)
C21_ScheduleReplaces ==
    [][ \A id \in PortIds : Registers(id) => AlarmsOf(osPending', id) = 1 ]_vars

(* this step completes a cancel(id): on the web the call itself, on a       *)
(* native platform the resumption after LocalNotifications.cancel           *)
CancelCompletes(id) ==
    \/ event'.call = "cancel" /\ event'.done = "cancel.resolved" /\ event'.id = id
    \/ \E task \in BagToSet(tasks) :
           task.kind = "cancel" /\ task.id = id /\ tasks' = tasks (-) One(task)

(* C22: cancel(id) for an id with no pending alarm changes nothing and      *)
(* raises no error to its caller, on the web and on a native platform,      *)
(* also when the platform rejects the call.                                 *)
C22_CancelAbsent ==
    [][ \A id \in PortIds :
            CancelCompletes(id) /\ AlarmsOf(osPending, id) = 0 =>
                /\ osPending' = osPending
                /\ reminders' = reminders
                /\ permission' = permission
                /\ event'.done # "cancel.rejected" ]_vars

(* the platform has just rejected a cancel for an id without an alarm,      *)
(* while an alarm of another id is pending                                  *)
C22_Witness ==
    /\ event.done = "cancel.resolved"
    /\ event.call = "none"
    /\ AlarmsOf(osPending, event.id) = 0
    /\ osPending # EmptyBag

(* this step completes a schedule call for id without an error *)
ScheduleResolves(id) ==
    \/ event'.call = "schedule" /\ event'.done = "schedule.resolved" /\ event'.id = id
    \/ /\ event'.done # "schedule.failed"
       /\ \E task \in BagToSet(tasks) :
              task.kind = "schedule" /\ task.id = id /\ tasks' = tasks (-) One(task)

(* C23: when the notification permission is not granted, schedule fails     *)
(* (PermissionDenied) and registers no alarm: no schedule call completes    *)
(* without an error while the permission is not granted.                    *)
C23_ScheduleNeedsPermission ==
    [][ \A id \in PortIds :
            permission' # "granted" => ~ScheduleResolves(id) /\ ~Registers(id) ]_vars

(* C24: every id create allocates is an integer of the 32-bit signed range  *)
(* the OS scheduler accepts, 0 <= id <= 2147483647, for every clock value.  *)
C24_IdInRange ==
    event.done = "id" => event.id \in 0..2147483647

(* an id has been allocated at a reading of today's size, just below a      *)
(* multiple of the modulus                                                  *)
C24_Witness ==
    /\ event.done = "id"
    /\ event.args = << 820, IdModulus - 1 >>
    /\ event.id = 2147483646

(* C25: after every store mutation the durable blob equals the in-memory    *)
(* collection (what is read back from it is the list that was written),     *)
(* and a restart that loads the blob yields the same ordered list.          *)
C25_BlobIsStore ==
    [][ /\ reminders' # reminders => JsonRoundTrip(reminders') = reminders'
        /\ event'.done = "restart" => reminders' = reminders ]_vars

(* this step issues the schedule call of a snooze for id *)
SnoozeIssues(id) ==
    \E task \in BagToSet(tasks') :
        /\ task.kind = "schedule" /\ task.owner = "snooze" /\ task.id = id
        /\ CopiesIn(task, tasks') > CopiesIn(task, tasks)

(* this step issues the schedule call of a branch of deferAll for id *)
DeferIssues(id) ==
    \E task \in BagToSet(tasks), resumed \in BagToSet(tasks') :
        /\ task.kind = "defer" /\ resumed.kind = "defer"
        /\ tasks' = (tasks (-) One(task)) (+) One(resumed)
        /\ \E b \in 1..Len(task.branches) :
               /\ task.branches[b].id = id
               /\ task.branches[b].pc = "cancel"
               /\ b \in 1..Len(resumed.branches)
               /\ resumed.branches[b].pc = "schedule"

(* the calls this step has left suspended *)
Issued == { task \in BagToSet(tasks') : CopiesIn(task, tasks') > CopiesIn(task, tasks) }

(* C26: within each snooze and each deferAll, for each id the cancel of the *)
(* prior alarm has completed when the schedule call for the id is issued    *)
(* (no alarm of the id is pending at that moment); dismiss issues a cancel  *)
(* and no schedule.                                                         *)
C26_CancelBeforeSchedule ==
    [][ /\ \A id \in CallableIds :
               SnoozeIssues(id) \/ DeferIssues(id) => AlarmsOf(osPending', id) = 0
        /\ event'.call = "dismiss" =>
               /\ \A task \in Issued : task.kind = "cancel" /\ task.id = event'.id
               /\ osPending' = osPending
               /\ platform # "web" => BagCardinality(tasks') = BagCardinality(tasks) + 1
      ]_vars

(* deferAll is under way for two reminders whose alarms were pending: one   *)
(* branch has had its cancel and has issued its schedule call, and no alarm *)
(* of its id is pending; the other branch still awaits its cancel           *)
C26_Witness ==
    \E task \in BagToSet(tasks) :
        /\ task.kind = "defer"
        /\ Len(task.branches) = 2
        /\ \E b, c \in 1..2 :
               /\ task.branches[b].pc = "schedule"
               /\ AlarmsOf(osPending, task.branches[b].id) = 0
               /\ task.branches[c].pc = "cancel"
               /\ AlarmsOf(osPending, task.branches[c].id) = 1

(* the reminder created as number u is in the store, its targetTime has     *)
(* passed and it is not notified                                            *)
DueUnalerted(u) ==
    \E r \in Range(reminders) : r.uid = u /\ r.targetTime <= now /\ ~r.notified

(* its alert was dispatched for its targetTime and it is notified *)
Alerted(u) ==
    \E r \in Range(reminders) :
        r.uid = u /\ r.targetTime <= now /\ r.notified /\ r.dispatched = 1

(* it was dismissed, or rescheduled to a later targetTime *)
GoneOrRescheduled(u) ==
    \A r \in Range(reminders) : r.uid = u => r.targetTime > now

(* C27: on the web (Immediate-Display), with the tick firing again and      *)
(* again, every reminder whose targetTime has passed with notified = FALSE  *)
(* and that is neither dismissed nor rescheduled eventually has its alert   *)
(* dispatched and notified = TRUE; and that on the first tick at or after   *)
(* targetTime: after every tick every reminder that is due is alerted.      *)
C27_DueIsAlerted ==
    /\ [](event.done = "tick" =>
             \A r \in Range(reminders) :
                 r.targetTime <= now => r.notified /\ r.dispatched = 1)
    /\ \A u \in 1..MaxCreates :
           DueUnalerted(u) ~> (Alerted(u) \/ GoneOrRescheduled(u))

(* a tick has just alerted a reminder at the targetTime a snooze gave it *)
C27_Witness ==
    /\ platform = "web"
    /\ event.done = "tick"
    /\ \E r \in Range(reminders) :
           /\ r.targetTime <= now /\ r.notified /\ r.dispatched = 1
           /\ r.targetTime # r.createdAt + r.originalDuration * MsPerSecond

(* the state of a reminder in its lifecycle *)
Phase(r) ==
    IF r.notified THEN "alerted"
    ELSE IF r.remaining > 0 THEN "pending"
    ELSE "due"

(* the moves of a reminder that stays in the store and is not rescheduled *)
Forward ==
    { << "pending", "pending" >>, << "pending", "due" >>, << "pending", "alerted" >>,
      << "due", "due" >>, << "due", "alerted" >>, << "alerted", "alerted" >> }

(* C28: each reminder moves only along pending (remaining > 0, notified =   *)
(* FALSE) -> due (remaining = 0, notified = FALSE) -> alerted (notified =   *)
(* TRUE); it enters the store by create, as pending; it leaves it only by   *)
(* dismiss or cleanup; it returns to pending only through snooze or         *)
(* deferAll, and a reschedule always returns it to pending; notified        *)
(* changes from TRUE to FALSE, and remaining grows, only by a reschedule.   *)
C28_Lifecycle ==
    [][ \A u \in 1..MaxCreates :
            LET before == { r \in Range(reminders) : r.uid = u }
                after  == { r \in Range(reminders') : r.uid = u }
                rescheduled == event'.done \in {"snooze", "deferAll"}
            IN  /\ before # {} /\ after = {} => event'.done \in {"dismiss", "cleanup"}
                /\ before = {} /\ after # {} =>
                       /\ event'.done = "create"
                       /\ \A r \in after : Phase(r) = "pending"
                /\ \A r \in before, q \in after :
                       /\ r.notified /\ ~q.notified => rescheduled
                       /\ q.remaining > r.remaining => rescheduled
                       /\ q.targetTime # r.targetTime =>
                              rescheduled /\ Phase(q) = "pending"
                       /\ << Phase(r), Phase(q) >> \in Forward
                              \/ (rescheduled /\ Phase(q) = "pending")
                       /\ q.notified => q.remaining = 0 ]_vars

(* the midnight cleanup has just removed a reminder that was alerted and    *)
(* has kept one that a snooze returned to pending                           *)
C28_Witness ==
    /\ platform = "web"
    /\ event.done = "cleanup"
    /\ nextUid = 2
    /\ Len(reminders) = 1
    /\ Phase(reminders[1]) = "pending"
    /\ reminders[1].originalDuration = 15 * SecondsPerMinute
    /\ reminders[1].targetTime #
           reminders[1].createdAt + reminders[1].originalDuration * MsPerSecond

(* C29: no operation changes a reminder's id, text or createdAt after its   *)
(* creation, and targetTime is changed only by snooze and deferAll: the     *)
(* tick and the cleanup never change it.                                    *)
C29_Frame ==
    [][ \A r \in Range(reminders), q \in Range(reminders') :
            r.uid = q.uid =>
                /\ q.id = r.id
                /\ q.text = r.text
                /\ q.createdAt = r.createdAt
                /\ q.targetTime # r.targetTime => event'.done \in {"snooze", "deferAll"}
                /\ event'.done \in {"tick", "cleanup"} => q.targetTime = r.targetTime
      ]_vars

(* the cleanup has just kept a reminder that the tick has counted down: it  *)
(* still has the targetTime of its creation                                 *)
C29_Witness ==
    /\ event.done = "cleanup"
    /\ \E r \in Range(reminders) :
           /\ r.remaining > 0
           /\ r.remaining < r.originalDuration
           /\ r.targetTime = r.createdAt + r.originalDuration * MsPerSecond
           /\ r.id = IdOf(r.createdAt)

(* C30: an inbound notification action for notification id i has the       *)
(* effect of snooze(i, 10) when its actionId is SNOOZE and the effect of    *)
(* dismiss(i) when it is DISMISS; any other actionId changes nothing.       *)
C30_ActionEffect ==
    [][ \A actionId \in ActionIds, i \in CallableIds :
            localNotificationActionPerformed(actionId, i) =>
                IF actionId = "SNOOZE" THEN handleSnooze(i, 10)
                ELSE IF actionId = "DISMISS" THEN handleDelete(i)
                ELSE UNCHANGED << platform, manager, cleanupAt, now, permission, deferTime,
                                  reminders, tasks, osPending, nextUid >> ]_vars

(* the SNOOZE action of a notification has just snoozed its reminder by 10  *)
(* minutes, after the alarm was delivered                                   *)
C30_Witness ==
    /\ event.call = "snooze"
    /\ event.args = << 10 >>
    /\ \E r \in Range(reminders) :
           /\ r.id = event.id
           /\ r.createdAt + r.originalDuration * MsPerSecond <= now
           /\ r.targetTime = now + 10 * 60 * 1000
    /\ \E task \in BagToSet(tasks) :
           task.kind = "schedule" /\ task.owner = "snooze" /\ task.id = event.id

(* C32: while the process runs, the cleanup recurs at every local midnight: *)
(* exactly one timer is pending at any time, set for the first midnight     *)
(* after the clock reading at which it was set and never for one beyond the *)
(* midnight that follows now; a cleanup runs only once the midnight of its  *)
(* timer has come, and it leaves the timer of the midnight that follows the *)
(* run, so no two runs fall after the same midnight.                        *)
C32_CleanupRecurs ==
    /\ [](/\ BagCardinality(cleanupAt) = 1
          /\ \A at \in BagToSet(cleanupAt) :
                 at % MsPerDay = 0 /\ at <= NextMidnight(now))
    /\ [][ event'.done = "cleanup" =>
               /\ \A at \in BagToSet(cleanupAt) : at <= now
               /\ \A at \in BagToSet(cleanupAt') :
                      /\ at > now
                      /\ at = StartOfDay(now) + MsPerDay
                      /\ \A before \in BagToSet(cleanupAt) : at > before ]_vars

(* the cleanup has just run at the second midnight of the run, for the      *)
(* timer that was set on day 1, and the store it leaves is empty after two  *)
(* creates                                                                  *)
C32_Witness ==
    /\ event.done = "cleanup"
    /\ now = 2 * MsPerDay
    /\ cleanupAt = One(3 * MsPerDay)
    /\ nextUid = 2
    /\ Len(reminders) = 0

(* C33: on a native platform (Durable-Schedule), with a clock that does not *)
(* run backwards, the fire instant of every pending alarm is not earlier    *)
(* than the targetTime stored for the reminder with the same id, after      *)
(* create, snooze and deferAll and under any interleaving of them.          *)
C33_AlarmNotBeforeTarget ==
    platform # "web" =>
        \A a \in BagToSet(osPending), r \in Range(reminders) :
            r.id = a.id => a.at >= r.targetTime

(* C34: whenever no operation is in flight, every alarm pending in the OS   *)
(* scheduler belongs to a reminder that is in the store.                    *)
C34_NoOrphanAlarm ==
    tasks = EmptyBag =>
        \A a \in BagToSet(osPending) : \E r \in Range(reminders) : r.id = a.id

(* C35: when a schedule call has failed for some selected reminder during   *)
(* deferAll, store and scheduler stay consistent: once the call has come to *)
(* its end, no selected reminder has an alarm pending at or after the       *)
(* deferred instant while its stored targetTime is still the old one.       *)
C35_DeferFailureConsistent ==
    event.done = "defer.rejected" =>
        \A r \in Range(reminders) :
            r.uid \in event.sel =>
                ~(/\ r.targetTime < event.args[1]
                  /\ \E a \in BagToSet(osPending) :
                         a.id = r.id /\ a.at >= event.args[1])

(* C36: for every deferTime the settings screen can store, the empty value  *)
(* of a cleared time input included, deferAll gives every reminder it       *)
(* selected a valid targetTime strictly later than now and a positive       *)
(* integer remaining.                                                       *)
C36_DeferTargetValid ==
    event.done = "deferAll" =>
        \A r \in Range(reminders) :
            r.uid \in event.sel =>
                /\ r.targetTime # NaN /\ r.targetTime > now
                /\ r.remaining # NaN /\ r.remaining > 0

(* C37: on the web (Immediate-Display) a reminder with notified = TRUE has  *)
(* had a user-visible alert displayed for its current targetTime, whatever  *)
(* the permission was at the moment of the crossing.                        *)
C37_NotifiedWasShown ==
    platform = "web" =>
        \A r \in Range(reminders) : r.notified => r.shown >= 1

(* the reminders of rs whose id is not id, in their order *)
Others(rs, id) == SelectSeq(rs, LAMBDA r : r.id # id)

(* C38: snooze(id, minutes) and dismiss(id) leave every reminder with a     *)
(* different id unchanged in all fields and keep the relative order of the  *)
(* reminders that stay in the store: a snooze keeps every reminder at its   *)
(* position, a dismiss leaves exactly the reminders of the other ids, in    *)
(* the order they had.                                                      *)
C38_OthersUntouched ==
    [][ event'.call \in {"snooze", "dismiss"} =>
            /\ Others(reminders', event'.id) = Others(reminders, event'.id)
            /\ event'.call = "snooze" =>
                   /\ Len(reminders') = Len(reminders)
                   /\ \A i \in 1..Len(reminders) :
                          /\ reminders'[i].uid = reminders[i].uid
                          /\ reminders[i].id # event'.id => reminders'[i] = reminders[i]
            /\ event'.call = "dismiss" =>
                   reminders' = Others(reminders, event'.id) ]_vars

(* the older of two reminders with different ids has just been snoozed,     *)
(* after a tick had counted both down: the newer one is first in the list   *)
(* with the targetTime of its creation                                      *)
C38_Witness ==
    /\ event.call = "snooze"
    /\ Len(reminders) = 2
    /\ reminders[2].id = event.id
    /\ reminders[2].targetTime = now + 10 * 60 * 1000
    /\ reminders[1].id # event.id
    /\ reminders[1].remaining < reminders[1].originalDuration
    /\ reminders[1].targetTime =
           reminders[1].createdAt + reminders[1].originalDuration * MsPerSecond

(* C39: NotificationManager.init makes the channel creation and the         *)
(* action-type registration at most once per process, also when several     *)
(* schedule calls run concurrently before the first init has completed.     *)
C39_InitOnce ==
    manager.channels <= 1 /\ manager.actionTypes <= 1

(* the text starts with a "[N]" *)
HasNumericPrefix(text) ==
    /\ Len(text) >= 3
    /\ text[1] = "["
    /\ \E k \in 3..Len(text) : text[k] = "]" /\ \A j \in 2..(k - 1) : IsDigit(text[j])

(* what follows the "[N]" of a text that starts with one *)
AfterPrefix(text) ==
    LET k == CHOOSE k \in 3..Len(text) :
                 text[k] = "]" /\ \A j \in 2..(k - 1) : IsDigit(text[j])
    IN  SubSeq(text, k + 1, Len(text))

(* C31: a create with a text that starts with a numeric prefix [N] uses N   *)
(* minutes in place of the selected duration (targetTime = now + N * 60 *   *)
(* 1000) and stores the text with the prefix stripped (with or without the  *)
(* white space that followed the prefix).                                   *)
C31_PrefixOverride ==
    [][ (event'.done = "create" /\ HasNumericPrefix(event'.args[1])) =>
            /\ reminders'[1].targetTime = now + PrefixMinutes(event'.args[1]) * 60 * 1000
            /\ reminders'[1].text \in { AfterPrefix(event'.args[1]),
                                        TrimStart(AfterPrefix(event'.args[1])) } ]_vars

(* C31, as the code has it: a prefix [N] with N > 0 gives a duration of N   *)
(* minutes and the stored text is what follows the prefix without its       *)
(* leading white space, or "Reminder" when nothing follows; a prefix [0]    *)
(* is no override: the selected duration applies and the text is stored as  *)
(* typed, prefix included.                                                  *)
C31_PositivePrefixOverride ==
    [][ (event'.done = "create" /\ HasNumericPrefix(event'.args[1])) =>
            LET text == event'.args[1]
                N    == PrefixMinutes(text)
                rest == TrimStart(AfterPrefix(text))
            IN  IF N > 0
                THEN /\ reminders'[1].targetTime = now + N * 60 * 1000
                     /\ reminders'[1].remaining = N * 60
                     /\ reminders'[1].originalDuration = N * 60
                     /\ reminders'[1].text = IF rest = << >> THEN DefaultText ELSE rest
                ELSE /\ reminders'[1].targetTime = now + event'.args[2] * 60 * 1000
                     /\ reminders'[1].text = text ]_vars

(* a create with the text "[5] m" and 30 minutes selected has stored the    *)
(* text "m", due in 5 minutes                                               *)
C31_Witness ==
    /\ event.done = "create"
    /\ event.args = << <<"[", "5", "]", " ", "m">>, 30 >>
    /\ reminders[1].text = << "m" >>
    /\ reminders[1].targetTime = now + 5 * 60 * 1000

====
